---- MODULE Spec2Model ----
(***************************************************************************)
(* Model of go.py: the command-line runner that renders test.html from     *)
(* test.template.html and webgl-canvas.js (--test-render) and opens        *)
(* test.html in the default browser (--test-browser).                      *)
(*                                                                         *)
(* A file is a record [exists, data]; data is a sequence of characters.    *)
(* Characters are one-element strings; "CR" and "LF" stand for '\r' and    *)
(* '\n'.  The program runs as one interpreter process whose position is    *)
(* pc; with-statements are split into open / body / close steps.           *)
(***************************************************************************)
EXTENDS Integers, Sequences, FiniteSets, TLC

VARIABLES
    fs,            \* the working directory: file name -> [exists, data]
    linesep,       \* os.linesep of the platform, as a character sequence
    argv,          \* the command line of the current invocation
    args,          \* the namespace returned by parse_args
    pc,            \* position of the interpreter in go.py
    handles,       \* names of the files that currently have an open handle
    webgl_canvas,  \* local of line 10
    contents,      \* local of line 11
    written,       \* the text handed to f.write on line 12
    exc,           \* line that raised the pending / uncaught exception
    status,        \* exit status of the process (meaningful when pc = "done")
    events,        \* I/O calls made by the current invocation, in order
    fs0,           \* history: fs when the current invocation started
    prev           \* history: test.html as left by the last successful render
                   \*          of an earlier invocation

vars == <<fs, linesep, argv, args, pc, handles, webgl_canvas, contents,
          written, exc, status, events, fs0, prev>>

----------------------------------------------------------------------------
(* Bounds and input sets *)

MaxTemplateLen == 3

MaxFragmentLen == 1

JsFile == "webgl-canvas.js"

TemplateFile == "test.template.html"

HtmlFile == "test.html"

Files == {JsFile, TemplateFile, HtmlFile}

Chars == {"{", "}", "CR", "LF"}

Strings(S, n) == UNION {[1..k -> S] : k \in 0..n}

ExampleTemplate == <<"A", "{", "}", "B", "{", "}", "C">>

ExampleFragment == <<"X">>

\* A fragment that itself contains the placeholder: a JavaScript empty object.
EmptyObject == <<"{", "}">>

Absent == [exists |-> FALSE, data |-> <<>>]

File(d) == [exists |-> TRUE, data |-> d]

\* Exhaustive inputs of the render specification.
TemplateTexts == Strings(Chars, MaxTemplateLen) \cup {ExampleTemplate}

FragmentTexts == Strings(Chars, MaxFragmentLen) \cup {ExampleFragment, EmptyObject}

\* Representative inputs of the whole-program specification.
TemplateSamples ==
    { <<>>, <<"{", "}">>, ExampleTemplate, <<"A", "CR", "LF", "{", "}">> }

FragmentSamples == { <<>>, ExampleFragment, EmptyObject }

PriorPages == { Absent, File(<<"O">>) }

LineSeps == { <<"LF">>, <<"CR", "LF">> }

Options == {"--test-render", "--tr", "--test-browser", "--tb"}

\* Each switch absent or given by one of its two spellings.
CommandLines ==
    { av \in SUBSET Options :
        /\ ~ {"--test-render", "--tr"} \subseteq av
        /\ ~ {"--test-browser", "--tb"} \subseteq av }

NoLine == "none"

----------------------------------------------------------------------------
(* Pure functions *)

\* A wrong parser that registers the long spellings only.
ParseArgsNoAlias(av) ==
    [ test_render  |-> "--test-render" \in av,
      test_browser |-> "--test-browser" \in av ]

\* argparse: two store_true switches, each with an alias.
ParseArgs(av) ==
    [ test_render  |-> ("--test-render" \in av) \/ ("--tr" \in av),
      test_browser |-> ("--test-browser" \in av) \/ ("--tb" \in av) ]

\* Text-mode read of Python 3 open() (newline=None): "\r\n" and a lone "\r"
\* are read as "\n".
RECURSIVE Decode(_)
Decode(b) ==
    IF b = <<>> THEN <<>>
    ELSE IF Head(b) = "CR"
         THEN IF Len(b) >= 2 /\ b[2] = "LF"
              THEN <<"LF">> \o Decode(SubSeq(b, 3, Len(b)))
              ELSE <<"LF">> \o Decode(Tail(b))
         ELSE <<Head(b)>> \o Decode(Tail(b))

\* Text-mode write of Python 3 open() (newline=None): "\n" is written as
\* os.linesep.
RECURSIVE Encode(_, _)
Encode(t, sep) ==
    IF t = <<>> THEN <<>>
    ELSE (IF Head(t) = "LF" THEN sep ELSE <<Head(t)>>) \o Encode(Tail(t), sep)

Placeholder == <<"{", "}">>

StartsWith(s, p) == Len(s) >= Len(p) /\ SubSeq(s, 1, Len(p)) = p

\* A wrong replace that substitutes the first occurrence only.
RECURSIVE ReplaceFirst(_, _, _)
ReplaceFirst(s, old, new) ==
    IF Len(s) < Len(old) THEN s
    ELSE IF StartsWith(s, old)
         THEN new \o SubSeq(s, Len(old) + 1, Len(s))
         ELSE <<Head(s)>> \o ReplaceFirst(Tail(s), old, new)

\* str.replace(old, new) for a non-empty old: one left-to-right scan of s,
\* each non-overlapping match replaced, the scan resuming after the match.
RECURSIVE Replace(_, _, _)
Replace(s, old, new) ==
    IF Len(s) < Len(old) THEN s
    ELSE IF StartsWith(s, old)
         THEN new \o Replace(SubSeq(s, Len(old) + 1, Len(s)), old, new)
         ELSE <<Head(s)>> \o Replace(Tail(s), old, new)

\* A wrong substitution that scans its own result again.
RenderRescan(template, fragment) ==
    Replace(Replace(template, Placeholder, fragment), Placeholder, fragment)

\* contents.replace('{}', webgl_canvas)
Render(template, fragment) == Replace(template, Placeholder, fragment)

Prefixes(d) == { SubSeq(d, 1, k) : k \in 0..(Len(d) - 1) }

Event(op, f) == <<op, f>>

----------------------------------------------------------------------------
(* The program *)

Fresh(av, dir) ==
    /\ argv = av
    /\ args = ParseArgs({})
    /\ pc = "L7"
    /\ handles = {}
    /\ webgl_canvas = <<>>
    /\ contents = <<>>
    /\ written = <<>>
    /\ exc = NoLine
    /\ status = 0
    /\ events = <<>>
    /\ fs0 = dir
    /\ prev = [valid |-> FALSE, out |-> <<>>]

\* A process of go.py has just been started in some working directory.
Init ==
    /\ linesep \in LineSeps
    /\ \E j \in {Absent} \cup {File(d) : d \in FragmentSamples},
          t \in {Absent} \cup {File(d) : d \in TemplateSamples},
          h \in PriorPages :
          fs = [f \in Files |-> IF f = JsFile THEN j
                                ELSE IF f = TemplateFile THEN t ELSE h]
    /\ \E av \in CommandLines : Fresh(av, fs)

\* A wrong handler that reports the exception and carries on after the
\* render step.
UncaughtContinue(line) ==
    /\ exc' = line
    /\ status' = status
    /\ pc' = "L14"

\* An unhandled exception raised on `line`: traceback, exit status 1.
Uncaught(line) ==
    /\ exc' = line
    /\ status' = 1
    /\ pc' = "done"

\* open(f) for reading: fails when f is absent, and may fail otherwise
\* (permissions, I/O error).
OpenRead(f, line, next) ==
    /\ events' = Append(events, Event("open_r", f))
    /\ \/ /\ fs[f].exists
          /\ handles' = handles \cup {f}
          /\ pc' = next
          /\ UNCHANGED <<exc, status>>
       \/ /\ handles' = handles
          /\ Uncaught(line)

\* A wrong exit from a with block that suppresses the pending exception.
CloseFileSwallow(f, next) ==
    /\ handles' = handles \ {f}
    /\ events' = Append(events, Event("close", f))
    /\ pc' = next
    /\ UNCHANGED <<exc, status>>

\* A wrong exit from a block that never closes its file.
CloseFileLeak(f, next) ==
    /\ handles' = handles
    /\ events' = Append(events, Event("close", f))
    /\ IF exc # NoLine
       THEN /\ status' = 1
            /\ pc' = "done"
       ELSE /\ pc' = next
            /\ status' = status
    /\ UNCHANGED exc

\* Leaving a with block: the handle is closed, then a pending exception
\* propagates.
CloseFile(f, next) ==
    /\ handles' = handles \ {f}
    /\ events' = Append(events, Event("close", f))
    /\ IF exc # NoLine
       THEN /\ status' = 1
            /\ pc' = "done"
       ELSE /\ pc' = next
            /\ status' = status
    /\ UNCHANGED exc

\* line 7: args = parser.parse_args()
Parse ==
    /\ pc = "L7"
    /\ args' = ParseArgs(argv)
    /\ pc' = "L9"
    /\ UNCHANGED <<fs, linesep, argv, handles, webgl_canvas, contents, written,
                   exc, status, events, fs0, prev>>

\* A wrong script whose browser block comes before the render block.
TestRenderMisordered ==
    /\ pc = "L9"
    /\ pc' = IF args.test_browser THEN "L15"
             ELSE IF args.test_render THEN "L10_open" ELSE "L14"
    /\ UNCHANGED <<fs, linesep, argv, args, handles, webgl_canvas, contents,
                   written, exc, status, events, fs0, prev>>

\* line 9: if args.test_render:
TestRender ==
    /\ pc = "L9"
    /\ pc' = IF args.test_render THEN "L10_open" ELSE "L14"
    /\ UNCHANGED <<fs, linesep, argv, args, handles, webgl_canvas, contents,
                   written, exc, status, events, fs0, prev>>

\* line 10: with open('webgl-canvas.js') as f:
OpenJs ==
    /\ pc = "L10_open"
    /\ OpenRead(JsFile, "L10", "L10_read")
    /\ UNCHANGED <<fs, linesep, argv, args, webgl_canvas, contents, written,
                   fs0, prev>>

\* line 10: webgl_canvas = f.read()
ReadJs ==
    /\ pc = "L10_read"
    /\ events' = Append(events, Event("read", JsFile))
    /\ pc' = "L10_close"
    /\ \/ /\ webgl_canvas' = Decode(fs[JsFile].data)
          /\ exc' = exc
       \/ /\ webgl_canvas' = webgl_canvas
          /\ exc' = "L10"
    /\ UNCHANGED <<fs, linesep, argv, args, handles, contents, written,
                   status, fs0, prev>>

\* line 10: end of the with block
CloseJs ==
    /\ pc = "L10_close"
    /\ CloseFile(JsFile, "L11_open")
    /\ UNCHANGED <<fs, linesep, argv, args, webgl_canvas, contents, written,
                   fs0, prev>>

\* line 11: with open('test.template.html') as f:
OpenTemplate ==
    /\ pc = "L11_open"
    /\ OpenRead(TemplateFile, "L11", "L11_read")
    /\ UNCHANGED <<fs, linesep, argv, args, webgl_canvas, contents, written,
                   fs0, prev>>

\* line 11: contents = f.read()
ReadTemplate ==
    /\ pc = "L11_read"
    /\ events' = Append(events, Event("read", TemplateFile))
    /\ pc' = "L11_close"
    /\ \/ /\ contents' = Decode(fs[TemplateFile].data)
          /\ exc' = exc
       \/ /\ contents' = contents
          /\ exc' = "L11"
    /\ UNCHANGED <<fs, linesep, argv, args, handles, webgl_canvas, written,
                   status, fs0, prev>>

\* line 11: end of the with block
CloseTemplate ==
    /\ pc = "L11_close"
    /\ CloseFile(TemplateFile, "L12_open")
    /\ UNCHANGED <<fs, linesep, argv, args, webgl_canvas, contents, written,
                   fs0, prev>>

\* What open(f, mode) leaves in an existing or new file: 'a' keeps the data.
OpenedForAppend(old) == File(old.data)

\* What open(f, 'w') leaves in the file: created if absent, truncated.
OpenedForWrite(old) == File(<<>>)

\* line 12: with open('test.html', 'w') as f:
OpenHtml ==
    /\ pc = "L12_open"
    /\ events' = Append(events, Event("open_w", HtmlFile))
    /\ \/ /\ fs' = [fs EXCEPT ![HtmlFile] = OpenedForWrite(fs[HtmlFile])]
          /\ handles' = handles \cup {HtmlFile}
          /\ pc' = "L12_write"
          /\ UNCHANGED <<exc, status>>
       \/ /\ UNCHANGED <<fs, handles>>
          /\ Uncaught("L12")
    /\ UNCHANGED <<linesep, argv, args, webgl_canvas, contents, written,
                   fs0, prev>>

\* line 12: f.write(contents.replace('{}', webgl_canvas))
\* A failing write (disk full, I/O error) leaves a proper prefix behind.
WriteHtml ==
    /\ pc = "L12_write"
    /\ events' = Append(events, Event("write", HtmlFile))
    /\ written' = Render(contents, webgl_canvas)
    /\ pc' = "L12_close"
    /\ LET old  == fs[HtmlFile].data
           data == Encode(written', linesep)
       IN \/ /\ fs' = [fs EXCEPT ![HtmlFile] = File(old \o data)]
             /\ exc' = exc
          \/ /\ \E part \in Prefixes(data) :
                   fs' = [fs EXCEPT ![HtmlFile] = File(old \o part)]
             /\ exc' = "L12"
    /\ UNCHANGED <<linesep, argv, args, handles, webgl_canvas, contents,
                   status, fs0, prev>>

\* line 12: end of the with block
CloseHtml ==
    /\ pc = "L12_close"
    /\ CloseFile(HtmlFile, "L14")
    /\ UNCHANGED <<fs, linesep, argv, args, webgl_canvas, contents, written,
                   fs0, prev>>

\* A wrong test of the switch: if not args.test_browser:
TestBrowserInverted ==
    /\ pc = "L14"
    /\ pc' = IF ~args.test_browser THEN "L15" ELSE "done"
    /\ UNCHANGED <<fs, linesep, argv, args, handles, webgl_canvas, contents,
                   written, exc, status, events, fs0, prev>>

\* line 14: if args.test_browser:   (falling off the end exits with 0)
TestBrowser ==
    /\ pc = "L14"
    /\ pc' = IF args.test_browser THEN "L15" ELSE "done"
    /\ UNCHANGED <<fs, linesep, argv, args, handles, webgl_canvas, contents,
                   written, exc, status, events, fs0, prev>>

\* A wrong browser step that first checks that test.html exists.
BrowserOpenIfExists ==
    /\ pc = "L15"
    /\ events' = IF fs[HtmlFile].exists
                 THEN Append(events, Event("browser", HtmlFile))
                 ELSE events
    /\ pc' = "done"
    /\ UNCHANGED <<fs, linesep, argv, args, handles, webgl_canvas, contents,
                   written, exc, status, fs0, prev>>

\* line 15: webbrowser.open('test.html'), then the end of the script
BrowserOpen ==
    /\ pc = "L15"
    /\ events' = Append(events, Event("browser", HtmlFile))
    /\ pc' = "done"
    /\ UNCHANGED <<fs, linesep, argv, args, handles, webgl_canvas, contents,
                   written, exc, status, fs0, prev>>

\* The render step of the finished invocation wrote and closed test.html.
Rendered ==
    /\ exc = NoLine
    /\ \E i \in 1..Len(events) : events[i] = Event("write", HtmlFile)
    /\ pc \in {"L14", "L15", "done"}

\* The script is run again in the same directory.
Invoke ==
    /\ pc = "done"
    /\ \E av \in CommandLines : argv' = av
    /\ args' = ParseArgs({})
    /\ pc' = "L7"
    /\ handles' = {}
    /\ webgl_canvas' = <<>>
    /\ contents' = <<>>
    /\ written' = <<>>
    /\ exc' = NoLine
    /\ status' = 0
    /\ events' = <<>>
    /\ fs0' = fs
    /\ prev' = IF Rendered
               THEN [valid |-> TRUE, out |-> fs[HtmlFile].data]
               ELSE prev
    /\ UNCHANGED <<fs, linesep>>

Step ==
    \/ Parse
    \/ TestRender
    \/ OpenJs
    \/ ReadJs
    \/ CloseJs
    \/ OpenTemplate
    \/ ReadTemplate
    \/ CloseTemplate
    \/ OpenHtml
    \/ WriteHtml
    \/ CloseHtml
    \/ TestBrowser
    \/ BrowserOpen

Next ==
    \/ Step
    \/ Invoke

Spec == Init /\ [][Next]_vars

\* One invocation that requests the render step, over every input text.
InitRender ==
    /\ linesep \in LineSeps
    /\ \E j \in {Absent} \cup {File(d) : d \in FragmentTexts},
          t \in {Absent} \cup {File(d) : d \in TemplateTexts},
          h \in PriorPages :
          fs = [f \in Files |-> IF f = JsFile THEN j
                                ELSE IF f = TemplateFile THEN t ELSE h]
    /\ \E av \in {{"--test-render"}, {"--tr", "--tb"}} : Fresh(av, fs)

SpecRender == InitRender /\ [][Step]_vars

----------------------------------------------------------------------------
(* Vocabulary of the properties, stated on the command line, the files and *)
(* the I/O calls, independently of the program text.                       *)

WantsRender == argv \cap {"--test-render", "--tr"} # {}

WantsBrowser == argv \cap {"--test-browser", "--tb"} # {}

Exited == pc = "done"

Did(op, f) == \E i \in 1..Len(events) : events[i] = Event(op, f)

Launched == Did("browser", HtmlFile)

Failed == exc # NoLine

RenderSucceeded == Did("close", HtmlFile) /\ ~Failed

\* Positions of T at which a placeholder starts ("{}" cannot overlap itself).
Occ(T) == { i \in 1..(Len(T) - 1) : T[i] = "{" /\ T[i + 1] = "}" }

RECURSIVE SubstitutedFrom(_, _, _)
SubstitutedFrom(T, F, i) ==
    IF i > Len(T) THEN <<>>
    ELSE (IF i \in Occ(T) THEN F
          ELSE IF (i - 1) \in Occ(T) THEN <<>>
          ELSE <<T[i]>>) \o SubstitutedFrom(T, F, i + 1)

\* T with each placeholder replaced by F, every other character kept in place.
Substituted(T, F) == SubstitutedFrom(T, F, 1)

HasCR(d) == \E i \in 1..Len(d) : d[i] = "CR"

ReadEvents(f) == << Event("open_r", f), Event("read", f), Event("close", f) >>

WriteEvents ==
    << Event("open_w", HtmlFile), Event("write", HtmlFile),
       Event("close", HtmlFile) >>

\* The file of the statement on a line, and the step that leaves its with block.
FileOf(line) ==
    IF line = "L10" THEN JsFile
    ELSE IF line = "L11" THEN TemplateFile ELSE HtmlFile

CloseStepOf(line) ==
    IF line = "L10" THEN "L10_close"
    ELSE IF line = "L11" THEN "L11_close" ELSE "L12_close"

RenderEvents == ReadEvents(JsFile) \o ReadEvents(TemplateFile) \o WriteEvents

----------------------------------------------------------------------------
(* C1 *)

\* C1 as stated: after a successful render test.html holds exactly the
\* template file's text with every placeholder replaced by the fragment
\* file's text, all other characters unchanged.
C1_Original ==
    RenderSucceeded =>
        fs[HtmlFile] =
            File(Substituted(fs0[TemplateFile].data, fs0[JsFile].data))

\* C1 amended: after a successful render, whatever test.html was before,
\* test.html holds Substituted(T, F) with each LF written as the platform's
\* line separator, where T and F are the two files as read in text mode
\* (CR LF and lone CR read as LF); for inputs without CR on a platform whose
\* separator is LF this is exactly the template file with every placeholder
\* replaced by the fragment file.
C1_Amended ==
    RenderSucceeded =>
        LET tfile == fs0[TemplateFile].data
            ffile == fs0[JsFile].data
        IN /\ fs[HtmlFile] =
                 File(Encode(Substituted(Decode(tfile), Decode(ffile)), linesep))
           /\ (~HasCR(tfile) /\ ~HasCR(ffile) /\ linesep = <<"LF">>)
                 => fs[HtmlFile] = File(Substituted(tfile, ffile))
           /\ (Occ(tfile) = {} /\ ~HasCR(tfile) /\ linesep = <<"LF">>)
                 => fs[HtmlFile] = File(tfile)

C1_Witness ==
    /\ RenderSucceeded
    /\ fs0[HtmlFile].exists
    /\ fs0[TemplateFile].data = ExampleTemplate
    /\ fs0[JsFile].data = ExampleFragment
    /\ fs[HtmlFile] = File(<<"A", "X", "B", "X", "C">>)

----------------------------------------------------------------------------
(* C2 *)

\* C2: when the render step is requested and an input file is absent or
\* cannot be read, the process ends with a non-zero status and test.html is
\* as it was before the invocation; test.html is opened for writing only
\* after both inputs have been opened, read and closed.
C2_MissingInput ==
    /\ (Exited /\ WantsRender
          /\ (~fs0[JsFile].exists \/ ~fs0[TemplateFile].exists
                \/ exc \in {"L10", "L11"}))
          => /\ status # 0
             /\ fs[HtmlFile] = fs0[HtmlFile]
             /\ ~Did("open_w", HtmlFile)
    /\ Did("open_w", HtmlFile)
          => /\ Len(events) >= 7
             /\ SubSeq(events, 1, 6) = ReadEvents(JsFile) \o ReadEvents(TemplateFile)
             /\ exc \notin {"L10", "L11"}

C2_Witness ==
    /\ Exited
    /\ WantsRender
    /\ fs0[JsFile].exists
    /\ ~fs0[TemplateFile].exists
    /\ fs0[HtmlFile].exists
    /\ status = 1
    /\ fs[HtmlFile] = fs0[HtmlFile]

----------------------------------------------------------------------------
(* C3 *)

\* C3 as stated: every invocation with --test-browser set performs the
\* browser open, also when its render step failed.
C3_Original == (Exited /\ WantsBrowser) => Launched

\* C3 amended: an invocation with --test-browser set performs the browser
\* open when the render step was not requested or completed successfully;
\* when the render step failed the invocation ends without it.
C3_Amended ==
    (Exited /\ WantsBrowser) =>
        /\ (~WantsRender \/ RenderSucceeded) => Launched
        /\ (WantsRender /\ ~RenderSucceeded) => ~Launched

C3_Witness ==
    /\ Exited
    /\ WantsBrowser
    /\ WantsRender
    /\ RenderSucceeded
    /\ Launched

----------------------------------------------------------------------------
(* C4 *)

\* C4: once a read or the write of the render step raises, the invocation
\* does nothing more than release the handle of the failing statement: no
\* later file is touched, no browser is launched, and the process ends with
\* a non-zero status.
C4_FailureIsFatal ==
    Failed =>
        /\ WantsRender
        /\ ~Launched
        /\ pc \in {"done", CloseStepOf(exc)}
        /\ Exited => status # 0
        /\ events # <<>>
        /\ events[Len(events)][2] = FileOf(exc)
        /\ exc = "L10" => \A i \in 1..Len(events) : events[i][2] = JsFile
        /\ exc = "L11" => \A i \in 1..Len(events) : events[i][2] # HtmlFile

C4_Witness ==
    /\ Exited
    /\ WantsBrowser
    /\ exc = "L12"
    /\ Did("write", HtmlFile)
    /\ status = 1
    /\ ~Launched

----------------------------------------------------------------------------
(* C5 *)

\* C5: with both switches set, the browser open is made only after the
\* render step has opened, read and closed both inputs and opened, written
\* and closed test.html: it is the last call, made with no handle open, and
\* test.html then holds the complete output.
C5_RenderBeforeBrowser ==
    /\ (pc = "L15" /\ WantsRender)
          => /\ events = RenderEvents
             /\ handles = {}
             /\ fs[HtmlFile] = File(Encode(written, linesep))
    /\ (Launched /\ WantsRender)
          => /\ events = Append(RenderEvents, Event("browser", HtmlFile))
             /\ handles = {}
             /\ fs[HtmlFile] = File(Encode(written, linesep))

C5_Witness ==
    /\ Exited
    /\ WantsRender
    /\ WantsBrowser
    /\ Launched
    /\ fs[HtmlFile] # fs0[HtmlFile]

----------------------------------------------------------------------------
(* C6 *)

\* C6: an invocation with neither switch set makes no I/O call at all, holds
\* no handle, leaves the three files as they were (absent ones stay absent)
\* and ends with exit status 0.
C6_NoFlagsNoEffect ==
    (~WantsRender /\ ~WantsBrowser) =>
        /\ events = <<>>
        /\ handles = {}
        /\ fs = fs0
        /\ ~Failed
        /\ Exited => status = 0

C6_Witness ==
    /\ Exited
    /\ argv = {}
    /\ status = 0
    /\ ~fs[HtmlFile].exists
    /\ fs[TemplateFile].exists

----------------------------------------------------------------------------
(* C7 *)

\* C7: an invocation with only --test-browser set makes exactly one I/O
\* call, the browser open of test.html, whether or not test.html exists; it
\* opens no file and leaves test.html (and the inputs) as they were.
C7_BrowserOnly ==
    (WantsBrowser /\ ~WantsRender) =>
        /\ fs = fs0
        /\ handles = {}
        /\ ~Failed
        /\ events \in {<<>>, <<Event("browser", HtmlFile)>>}
        /\ Exited => (status = 0 /\ events = <<Event("browser", HtmlFile)>>)

C7_Witness ==
    /\ Exited
    /\ WantsBrowser
    /\ ~WantsRender
    /\ Launched
    /\ ~fs0[HtmlFile].exists
    /\ ~fs[HtmlFile].exists

----------------------------------------------------------------------------
(* C8 *)

\* C8: a successful render leaves in test.html the same content as the
\* previous successful render did (the inputs being unchanged in between),
\* whatever test.html held when it started; no step of the program changes
\* webgl-canvas.js or test.template.html.
C8_RerenderSame ==
    /\ (RenderSucceeded /\ prev.valid) => fs[HtmlFile].data = prev.out
    /\ fs[JsFile] = fs0[JsFile]
    /\ fs[TemplateFile] = fs0[TemplateFile]

C8_Witness ==
    /\ Exited
    /\ RenderSucceeded
    /\ prev.valid
    /\ prev.out = <<"A", "X", "B", "X", "C">>
    /\ fs0[HtmlFile].data # prev.out

----------------------------------------------------------------------------
(* C9 *)

\* C9: at most one file handle is open at any time, and it is the handle of
\* the with block being executed: none is open when the next file is opened,
\* when the browser-open step begins or when the process has ended, also
\* after a read or the write has raised.
C9_OneHandle ==
    /\ Cardinality(handles) <= 1
    /\ handles =
          IF pc \in {"L10_read", "L10_close"} THEN {JsFile}
          ELSE IF pc \in {"L11_read", "L11_close"} THEN {TemplateFile}
          ELSE IF pc \in {"L12_write", "L12_close"} THEN {HtmlFile}
          ELSE {}

C9_Witness ==
    /\ Exited
    /\ exc = "L12"
    /\ Did("write", HtmlFile)
    /\ Did("close", HtmlFile)
    /\ handles = {}

----------------------------------------------------------------------------
(* C10 *)

\* C10: the text handed to the write is the template text with each of its
\* n placeholders replaced by the fragment text F in one pass; placeholders
\* inside F, or formed where F meets the template, are not replaced again,
\* so its length is len(T) - 2n + n * len(F).
C10_SinglePass ==
    Did("write", HtmlFile) =>
        LET n == Cardinality(Occ(contents))
        IN /\ written = Substituted(contents, webgl_canvas)
           /\ Len(written) = Len(contents) - 2 * n + n * Len(webgl_canvas)

C10_Witness ==
    /\ Did("write", HtmlFile)
    /\ contents = ExampleTemplate
    /\ webgl_canvas = EmptyObject
    /\ written = ExampleTemplate
    /\ Cardinality(Occ(written)) = 2

====
